---------------------------- MODULE Spec2Model ----------------------------
(* A state-machine model of export_textures/src/main.rs: the texture      *)
(* exporter that reads the class instances of a SWF document's ABC blobs, *)
(* joins them with the SymbolClass link table and renders every matching  *)
(* symbol on a shared stage into <output>/<docname>/<name>.png.           *)
EXTENDS Integers, Sequences, FiniteSets, TLC

(***************************************************************************)
(* Program constants                                                       *)
(***************************************************************************)
RENDER_WIDTH == 2048
RENDER_HEIGHT == 2048

\* The literals of the selection test of parse_swf_for_textures.
TEXTURE_NAMESPACE == "com.exported.textures"
BASE_NAMESPACE == "com.lachhh.flash"
BASE_NAME == "FlashAnimationTexture"

(***************************************************************************)
(* Bounds of the model                                                     *)
(***************************************************************************)
\* The longest tag sequence of a document.
MaxTags == 3

(***************************************************************************)
(* The constant pool of the ABC blobs (AbcFile.constant_pool).  Every blob *)
(* of the model shares this pool; the blobs differ in their instances.     *)
(* References into the three tables are 1-based u32 indices.               *)
(***************************************************************************)
PoolStrings ==
    << "com.exported.textures",   \* 1
       "com.lachhh.flash",        \* 2
       "FlashAnimationTexture",   \* 3
       "Foo",                     \* 4
       "Bar",                     \* 5
       "Baz",                     \* 6
       "other.pkg" >>             \* 7

NamespaceKinds ==
    { "Namespace", "Package", "PackageInternal", "Protected", "Explicit",
      "StaticProtected", "Private" }

Ns(kind, i) == [kind |-> kind, index |-> i]

PoolNamespaces ==
    << Ns("Package", 1),          \* 1  com.exported.textures
       Ns("Package", 2),          \* 2  com.lachhh.flash
       Ns("PackageInternal", 7),  \* 3  other.pkg
       Ns("Private", 1),          \* 4  com.exported.textures, private
       Ns("Package", 0),          \* 5  string index 0
       Ns("Namespace", 8) >>      \* 6  string index past the table

MultinameKinds ==
    { "QName", "QNameA", "RTQName", "RTQNameA", "RTQNameL", "RTQNameLA",
      "Multiname", "MultinameA", "MultinameL", "MultinameLA", "TypeName" }

Mn(kind, ns, name) == [kind |-> kind, namespace |-> ns, name |-> name]

PoolMultinames ==
    << Mn("QName", 1, 4),         \* 1  com.exported.textures.Foo
       Mn("QName", 2, 3),         \* 2  com.lachhh.flash.FlashAnimationTexture
       Mn("QName", 1, 5),         \* 3  com.exported.textures.Bar
       Mn("QName", 1, 6),         \* 4  com.exported.textures.Baz
       Mn("QName", 3, 4),         \* 5  other.pkg.Foo
       Mn("QName", 2, 4),         \* 6  com.lachhh.flash.Foo
       Mn("QName", 4, 5),         \* 7  (private) com.exported.textures.Bar
       Mn("RTQName", 0, 4),       \* 8
       Mn("Multiname", 1, 4),     \* 9
       Mn("TypeName", 1, 2),      \* 10
       Mn("QName", 0, 4),         \* 11 namespace index 0
       Mn("QName", 5, 4),         \* 12 namespace whose string index is 0
       Mn("QName", 6, 4),         \* 13 namespace whose string index is too big
       Mn("QName", 1, 0),         \* 14 name index 0
       Mn("QName", 1, 8),         \* 15 name index past the table
       Mn("QNameA", 1, 4),        \* 16
       Mn("RTQNameA", 0, 4),      \* 17
       Mn("RTQNameL", 0, 0),      \* 18
       Mn("RTQNameLA", 0, 0),     \* 19
       Mn("MultinameA", 1, 4),    \* 20
       Mn("MultinameL", 1, 0),    \* 21
       Mn("MultinameLA", 1, 0) >> \* 22

Pool == [strings |-> PoolStrings, namespaces |-> PoolNamespaces,
         multinames |-> PoolMultinames]

(***************************************************************************)
(* Results of the fallible steps.  A Rust panic (expect, unwrap, panic!,   *)
(* an arithmetic overflow of a build with overflow checks) is the value    *)
(* Panic(msg); it unwinds through every caller up to main.                 *)
(***************************************************************************)
Ok(v) == [ok |-> TRUE, val |-> v, msg |-> ""]
Panic(m) == [ok |-> FALSE, val |-> <<>>, msg |-> m]

OVERFLOW == "attempt to subtract with overflow"

\* table.get((i - 1) as usize).expect(msg) with i: u32.  With overflow checks
\* (checks = TRUE) 0 - 1 panics; without them it wraps to 2^32 - 1, which is
\* past the end of every table, get returns None and expect panics.
GetExpect(table, i, msg, checks) ==
    IF i = 0
    THEN IF checks THEN Panic(OVERFLOW) ELSE Panic(msg)
    ELSE IF i - 1 < Len(table) THEN Ok(table[i]) ELSE Panic(msg)

\* get_namespace_name with a private namespace resolved to no name.
get_namespace_name_PrivateAnonymous(namespace, abc, checks) ==
    IF namespace.kind = "Private"
    THEN Ok("")
    ELSE GetExpect(abc.strings, namespace.index, "Could not get string!", checks)

\* get_namespace_name: the string a namespace wraps, whatever its kind.
get_namespace_name(namespace, abc, checks) ==
    CASE namespace.kind = "Namespace" ->
            GetExpect(abc.strings, namespace.index, "Could not get string!", checks)
      [] namespace.kind = "Package" ->
            GetExpect(abc.strings, namespace.index, "Could not get string!", checks)
      [] namespace.kind = "PackageInternal" ->
            GetExpect(abc.strings, namespace.index, "Could not get string!", checks)
      [] namespace.kind = "Protected" ->
            GetExpect(abc.strings, namespace.index, "Could not get string!", checks)
      [] namespace.kind = "Explicit" ->
            GetExpect(abc.strings, namespace.index, "Could not get string!", checks)
      [] namespace.kind = "StaticProtected" ->
            GetExpect(abc.strings, namespace.index, "Could not get string!", checks)
      [] namespace.kind = "Private" ->
            GetExpect(abc.strings, namespace.index, "Could not get string!", checks)

UNSUPPORTED_NAME == "This name type is not supported yet!"

\* get_name: the (namespace, name) pair of a multiname.
get_name(name, abc, checks) ==
    IF name.kind # "QName"
    THEN Panic(UNSUPPORTED_NAME)
    ELSE LET ns == GetExpect(abc.namespaces, name.namespace,
                             "Could not get namespace!", checks)
         IN  IF ~ns.ok THEN ns
             ELSE LET nss == get_namespace_name(ns.val, abc, checks)
                  IN  IF ~nss.ok THEN nss
                      ELSE LET nm == GetExpect(abc.strings, name.name,
                                               "Could not get string!", checks)
                           IN  IF ~nm.ok THEN nm
                               ELSE Ok(<<nss.val, nm.val>>)

(***************************************************************************)
(* Documents: the tag sequence swf::parse_swf returns.  Only the three tag *)
(* kinds the program looks at are modelled; a tag carries the instances of *)
(* its ABC blob (DoAbc, DoAbc2) or its links (SymbolClass).                *)
(***************************************************************************)
None == [some |-> FALSE, v |-> 0]
Some(v) == [some |-> TRUE, v |-> v]

Inst(name, super) == [name |-> name, super_name |-> super]
Link(id, cls, utf8) == [id |-> id, class_name |-> cls, valid_utf8 |-> utf8]

SymbolClassTag(links) == [kind |-> "SymbolClass", instances |-> <<>>, links |-> links]
DoAbcTag(instances) == [kind |-> "DoAbc", instances |-> instances, links |-> <<>>]
DoAbc2Tag(instances) == [kind |-> "DoAbc2", instances |-> instances, links |-> <<>>]

LinksFoo ==
    << Link(5, "com.exported.textures.Foo", TRUE) >>
LinksBarFoo ==
    << Link(0, "Main", TRUE),
       Link(7, "com.exported.textures.Bar", TRUE),
       Link(9, "com.exported.textures.Foo", TRUE),
       Link(6, "com.exported.textures.Foo", TRUE),
       Link(8, "com.exported.textures.Baz", FALSE) >>

TagChoices ==
    { SymbolClassTag(LinksFoo),
      SymbolClassTag(LinksBarFoo),
      \* a legacy blob declaring the texture class Foo
      DoAbcTag(<< Inst(1, 2) >>),
      \* Foo extends FlashAnimationTexture
      DoAbc2Tag(<< Inst(1, 2) >>),
      \* Bar extends FlashAnimationTexture; Baz extends Foo;
      \* other.pkg.Foo extends FlashAnimationTexture;
      \* Foo extends com.lachhh.flash.Foo; private Bar extends Baz
      DoAbc2Tag(<< Inst(3, 2), Inst(4, 1), Inst(5, 2), Inst(1, 6), Inst(7, 4) >>),
      \* a class named by a runtime-qualified name
      DoAbc2Tag(<< Inst(1, 2), Inst(8, 2) >>),
      \* a class without a superclass: super_name 0
      DoAbc2Tag(<< Inst(3, 0) >>),
      \* a class whose name has namespace index 0 ("any namespace")
      DoAbc2Tag(<< Inst(11, 2) >>) }

Docs == UNION { [1..n -> TagChoices] : n \in 0..MaxTags }

\* SwfStr::to_string_lossy(UTF_8): the text of the bytes, with U+FFFD in the
\* place of every byte sequence that is not UTF-8.
to_string_lossy(link) ==
    IF link.valid_utf8 THEN link.class_name ELSE link.class_name \o "\\uFFFD"

\* format!("{}.{}", namespace, name)
QualifiedName(classname) == classname.namespace \o "." \o classname.name

ClassName(pair) == [namespace |-> pair[1], name |-> pair[2]]

ExportedTexture(name, supername) ==
    [classname |-> ClassName(name), supername |-> ClassName(supername), id |-> None]

\* The selection test without its supername half.
IsTexture_NameOnly(name, supername) ==
    name[1] = TEXTURE_NAMESPACE

\* The selection test of line 132.
IsTexture(name, supername) ==
    /\ name[1] = TEXTURE_NAMESPACE
    /\ supername[1] = BASE_NAMESPACE
    /\ supername[2] = BASE_NAME

\* The loop over abc.instances (lines 125-139), from instance k on: the
\* result list with the selected instances pushed, or the first panic.
RECURSIVE InstancesLoop(_, _, _, _, _)
InstancesLoop(instances, k, abc, result, checks) ==
    IF k > Len(instances) THEN Ok(result)
    ELSE LET i == instances[k]
             mn == GetExpect(abc.multinames, i.name, "No index at thingy!", checks)
         IN  IF ~mn.ok THEN mn
             ELSE LET name == get_name(mn.val, abc, checks)
                  IN  IF ~name.ok THEN name
                      ELSE LET smn == GetExpect(abc.multinames, i.super_name,
                                                "No index at thingy!", checks)
                           IN  IF ~smn.ok THEN smn
                               ELSE LET supername == get_name(smn.val, abc, checks)
                                    IN  IF ~supername.ok THEN supername
                                        ELSE InstancesLoop(instances, k + 1, abc,
                                               IF IsTexture(name.val, supername.val)
                                               THEN Append(result,
                                                      ExportedTexture(name.val, supername.val))
                                               ELSE result,
                                               checks)

\* Reader::read on the legacy blobs too.
IsParsedTag_AnyAbc(tag) == tag.kind \in { "DoAbc", "DoAbc2" }

\* Which tags have their blob handed to Reader::read (line 122), and which
\* print the "Abc v1 is not supported yet" warning (line 119).
IsParsedTag(tag) == tag.kind = "DoAbc2"
IsWarnedTag(tag) == tag.kind = "DoAbc"

\* Lines 122-140: result after the tag, or the panic the tag ends in.
TagResult(tag, result, checks) ==
    IF IsParsedTag(tag)
    THEN InstancesLoop(tag.instances, 1, Pool, result, checks)
    ELSE Ok(result)

\* The link tables of all SymbolClass tags merged.
NextLinks_Merge(links, tag) ==
    IF tag.kind = "SymbolClass"
    THEN [some |-> TRUE, v |-> links.v \o tag.links]
    ELSE links

\* Lines 116-118: links after the tag.
NextLinks(links, tag) ==
    IF tag.kind = "SymbolClass" THEN [some |-> TRUE, v |-> tag.links] ELSE links

\* The join with the first link of the table only.
JoinLinks_FirstLink(table, k, result) ==
    IF Len(table) = 0 THEN result
    ELSE [j \in 1..Len(result) |->
            IF QualifiedName(result[j].classname) = to_string_lossy(table[1])
            THEN [result[j] EXCEPT !.id = Some(table[1].id)]
            ELSE result[j]]

\* The join of lines 143-149: for every link in order, every texture whose
\* qualified class name is the link's gets the link's id.
RECURSIVE JoinLinks(_, _, _)
JoinLinks(table, k, result) ==
    IF k > Len(table) THEN result
    ELSE JoinLinks(table, k + 1,
           [j \in 1..Len(result) |->
               IF QualifiedName(result[j].classname) = to_string_lossy(table[k])
               THEN [result[j] EXCEPT !.id = Some(table[k].id)]
               ELSE result[j]])

(***************************************************************************)
(* parse_swf_for_textures as a function of the tag sequence: the loop of   *)
(* lines 115-141 from tag k on, then the join of lines 143-149.            *)
(***************************************************************************)
RECURSIVE ParseTags(_, _, _, _, _)
ParseTags(tags, k, result, links, checks) ==
    IF k > Len(tags)
    THEN IF links.some
         THEN Ok(JoinLinks(links.v, 1, result))
         ELSE Panic("No class links found in swf!")
    ELSE LET r == TagResult(tags[k], result, checks)
         IN  IF ~r.ok THEN r
             ELSE ParseTags(tags, k + 1, r.val, NextLinks(links, tags[k]), checks)

(***************************************************************************)
(* The render capability and the file system, as far as main uses them.    *)
(***************************************************************************)
\* (movie_width, movie_height) of the documents of the model.
DimChoices == { <<400, 300>>, <<401, 2048>>, <<3000, 300>>, <<400, 2304>> }

\* mc.bounds() of the instantiated symbols: [x_min, y_min, x_max, y_max];
\* mc.width() and mc.height() are the extents of the same box.
BoundsChoices ==
    { [x_min |-> -10, y_min |-> -5, x_max |-> 54, y_max |-> 27],
      [x_min |-> 0, y_min |-> 0, x_max |-> 1700, y_max |-> 10] }

NoBounds == [x_min |-> 0, y_min |-> 0, x_max |-> 0, y_max |-> 0]

\* (mc.width() as u32, mc.height() as u32)
BoxOf(bounds) == << bounds.x_max - bounds.x_min, bounds.y_max - bounds.y_min >>

\* The character ids the movie's library can instantiate.
LibraryChoices == { {5, 6, 7}, {7} }

\* The movies SwfMovie::from_path can load.
MovieChoices ==
    [loaded : {TRUE}, is_action_script_3 : BOOLEAN, library : LibraryChoices]

\* What the render and capture of take_screenshot can do: capture_frame
\* returns Some(image) or None, or a call inside catch_unwind panics.
RenderChoices == { "image", "none", "panic" }

\* The main timeline of the movie, which preload and run_frame put on the
\* stage, and a display object fresh from the library.
ROOT == 0
Obj(sym) == [sym |-> sym, x |-> 0, y |-> 0, frames |-> 0]

\* remove_range that removes nothing.
remove_range_None(children, from, to) == children

\* stage.remove_range(context, from..to): the children at the 0-based
\* positions from <= i < to leave the stage.
remove_range(children, from, to) ==
    SubSeq(children, 1, from) \o SubSeq(children, to + 1, Len(children))

\* stage.insert_at_index(context, child, index), index 0-based.
insert_at_index(children, child, index) ==
    SubSeq(children, 1, index) \o << child >>
        \o SubSeq(children, index + 1, Len(children))

\* stage.construct_frame(context); stage.frame_constructed(context): every
\* child of the stage has one more frame constructed.
construct_frame(children) ==
    [i \in 1..Len(children) |->
        [children[i] EXCEPT !.frames = children[i].frames + 1]]

\* mc.set_x(-x_min); mc.set_y(-y_min) on the child at the 0-based index.
set_xy(children, index, nx, ny) ==
    [i \in 1..Len(children) |->
        IF i = index + 1
        THEN [children[i] EXCEPT !.x = nx, !.y = ny]
        ELSE children[i]]

\* player.lock().unwrap() on the player's mutex: the guard when the mutex is
\* free, a panic when a holder panicked; the thread that holds the mutex
\* waits for itself.
DEADLOCK == "deadlock"
LockUnwrap(mutex) ==
    CASE mutex = "free" -> Ok("held")
      [] mutex = "poisoned" -> Panic("PoisonError")
      [] OTHER -> Panic(DEADLOCK)

\* A guard that is never dropped.
DropGuard_Leak(mutex) == mutex

\* The guard is dropped: at the end of its statement or block, or while a
\* panic unwinds through it.
DropGuard(mutex) == "free"
DropGuardPanicking(mutex) == "poisoned"

\* n statements player.lock().unwrap().f(...) one after the other, each with
\* its own guard, dropped at the end of the statement: the mutex after the
\* last one, or the first lock that gave no guard.
RECURSIVE LockedStatements(_, _)
LockedStatements(mutex, n) ==
    IF n = 0 THEN Ok(mutex)
    ELSE LET g == LockUnwrap(mutex)
         IN  IF ~g.ok THEN g ELSE LockedStatements(DropGuard(g.val), n - 1)

\* take_screenshot's match on catch_unwind, lines 256-275, for the texture
\* named name: what the closure did becomes Ok(image) or an error.
ScreenshotResult_Uncaught(r, name) ==
    CASE r = "image" -> Ok(name)
      [] r = "none" -> [ok |-> FALSE, val |-> "err",
                        msg |-> "Unable to capture frame of \"" \o name \o "\""]
      [] OTHER -> [ok |-> FALSE, val |-> "panic", msg |-> "render"]

ScreenshotResult(r, name) ==
    CASE r = "image" -> Ok(name)
      [] r = "none" -> [ok |-> FALSE, val |-> "err",
                        msg |-> "Unable to capture frame of \"" \o name \o "\""]
      [] OTHER -> [ok |-> FALSE, val |-> "err",
                   msg |-> "Unable to capture frame of \"" \o name \o "\": panic"]

\* What the file and the render capability gave to a run: nothing is kept of
\* a single run (again = FALSE); of a run that is to be repeated the
\* document, the movie, the stage size and the boxes are kept, and the
\* repeated run (replay = TRUE) is given the same ones.
NoEnv == [again |-> FALSE, replay |-> FALSE, doc |-> <<>>,
          movie |-> [loaded |-> FALSE, is_action_script_3 |-> FALSE,
                     library |-> {}],
          dims |-> <<0, 0>>, boxes |-> <<>>]
DocsOf(e) == IF e.replay THEN { e.doc } ELSE Docs
MoviesOf(e) == IF e.replay THEN { e.movie } ELSE MovieChoices
DimsOf(e) == IF e.replay THEN { e.dims } ELSE DimChoices
BoundsOf(e, j) == IF e.replay THEN { e.boxes[j] } ELSE BoundsChoices
RendersOf(e) == IF e.replay THEN { "image" } ELSE { "image", "panic" }
CapturesOf(e) == IF e.replay THEN { "image" } ELSE RenderChoices
KeepDoc(e, doc) == IF e.again /\ ~e.replay THEN [e EXCEPT !.doc = doc] ELSE e
KeepBox(e, box) ==
    IF e.again /\ ~e.replay THEN [e EXCEPT !.boxes = Append(e.boxes, box)] ELSE e

\* A file that was in the output subdirectory before the run.
StaleImage == [sym |-> 0, x |-> 0, y |-> 0, w |-> 1, h |-> 1]
NoFiles == [n \in {} |-> StaleImage]
StaleFiles == [n \in {"Foo.png", "Old.png"} |-> StaleImage]

\* The directory <output>/<docname>: absent, or holding files.
NoDir == [exists |-> FALSE, files |-> NoFiles]
Dir(files) == [exists |-> TRUE, files |-> files]
DirChoices == { NoDir, Dir(StaleFiles) }

\* remove_dir_all that leaves the directory as it is.
remove_dir_all_Keep(dir) == dir

\* remove_dir_all(swf_output), its error ignored.
remove_dir_all(dir) == NoDir

\* create_dir_all(swf_output), its error ignored.
create_dir_all(dir) == IF dir.exists THEN dir ELSE Dir(NoFiles)

\* std::fs::write(path, bytes): creates the file or replaces its content.
WriteFile(dir, name, data) ==
    Dir([n \in DOMAIN dir.files \cup {name} |->
            IF n = name THEN data ELSE dir.files[n]])

\* ((RENDER - m) as f32 / 2.0).round() as u32 with RENDER, m: u32.
\* m <= RENDER: the difference is below 2^24, exact as an f32, and round
\* takes the half away from zero.  m > RENDER: a build with overflow checks
\* panics; otherwise the difference wraps to 2^32 - d with d = m - RENDER,
\* which as an f32 is the nearest multiple of 256 (ties to even), 2^32 - 256k,
\* and half of it is 2^31 - 128k.  TLC's integers end at 2^31 - 1, which
\* stands for 2^31 when k = 0.
HalfOffset(render, m, checks) ==
    IF m <= render THEN Ok((render - m + 1) \div 2)
    ELSE IF checks THEN Panic(OVERFLOW)
    ELSE LET d == m - render
             q == d \div 256
             r == d % 256
             k == IF r < 128 THEN q
                  ELSE IF r > 128 THEN q + 1
                  ELSE IF q % 2 = 0 THEN q ELSE q + 1
         IN  Ok(IF k = 0 THEN 2147483647 ELSE (2147483647 - 128 * k) + 1)

\* image.view(x, y, width, height) on the RENDER_WIDTH x RENDER_HEIGHT
\* capture: the image crate asserts, in 64 bits, that x + width and
\* y + height do not pass the capture's width and height.
ViewInBounds(x, y, width, height) ==
    /\ x <= RENDER_WIDTH /\ width <= RENDER_WIDTH - x
    /\ y <= RENDER_HEIGHT /\ height <= RENDER_HEIGHT - y

\* format!("{}.png", texture.classname.name)
ImgFile(texture) == texture.classname.name \o ".png"

(***************************************************************************)
(* State                                                                   *)
(***************************************************************************)
VARIABLES
    opt,        \* Opt: the paths' state and the two flags
    checks,     \* whether the build has overflow checks (a debug build)
    outdir0,    \* <output>/<docname> as it was when the run began
    outdir,     \* <output>/<docname> now
    pc,         \* where main is
    err,        \* the error main returned or the panic that ended it
    swf,        \* parse_swf_for_textures: swf.tags
    t,          \* parse_swf_for_textures: the index of the tag loop
    result,     \* parse_swf_for_textures: result
    links,      \* parse_swf_for_textures: links
    reads,      \* the tags whose blob was handed to Reader::read
    warnings,   \* the number of warnings printed
    decoded,    \* whether bytecode of the document has been decoded
    textures,   \* main: textures
    movie,      \* the movie of the player: is_action_script_3, library
    stage,      \* the children of the player's stage
    m_size,     \* main: (m_width, m_height)
    cur,        \* main: the index of the texture loop
    size,       \* main: (width, height) of prepare_stage
    offset,     \* main: (half_width, half_height)
    image,      \* main: the captured image, then the cropped one
    bounds,     \* prepare_stage: bounds
    lock,       \* the player's mutex: free, held or poisoned
    steps,      \* the steps taken for the texture of this turn, in order
    written,    \* the indices of the textures whose file was written, in order
    faults,     \* the indices of the textures whose render or capture failed
    env,        \* what the file and the render capability gave so far
    run,        \* the number of this run of the program
    first,      \* <output>/<docname> as the first run left it
    query,      \* the constant-pool entry handed to a resolver
    answer      \* what the resolver returned

vars == << opt, checks, outdir0, outdir, pc, err, swf, t, result, links, reads,
           warnings, decoded, textures, movie, stage, m_size, cur, size, offset,
           image, bounds, lock, steps, written, faults, env, run, first,
           query, answer >>

parseVars == << swf, t, result, links, reads >>
playerVars == << movie, stage, m_size, cur, size, offset, image, bounds, lock,
                 steps, written, faults >>
runVars == << run, first >>
nameVars == << query, answer >>

NoLinks == [some |-> FALSE, v |-> <<>>]
NoMovie == [loaded |-> FALSE, is_action_script_3 |-> FALSE, library |-> {}]
NoImage == [sym |-> 0, x |-> 0, y |-> 0, w |-> 0, h |-> 0]
NoQuery == [of |-> "none", kind |-> "", index |-> 0]
NoAnswer == Panic("")

OptChoices ==
    [swf_is_file : BOOLEAN, output_is_dir : BOOLEAN,
     skip_unsupported : BOOLEAN, clear_textures : BOOLEAN]

\* The state of main's locals and of the player before main runs.
InitLocals ==
    /\ err = ""
    /\ swf = <<>>
    /\ t = 0
    /\ result = <<>>
    /\ links = NoLinks
    /\ reads = {}
    /\ warnings = 0
    /\ decoded = FALSE
    /\ textures = <<>>
    /\ movie = NoMovie
    /\ stage = <<>>
    /\ m_size = <<0, 0>>
    /\ cur = 0
    /\ size = <<0, 0>>
    /\ offset = <<0, 0>>
    /\ image = NoImage
    /\ bounds = NoBounds
    /\ lock = "free"
    /\ steps = <<>>
    /\ written = <<>>
    /\ faults = {}

Init ==
    /\ opt \in OptChoices
    /\ checks \in BOOLEAN
    /\ outdir0 \in DirChoices
    /\ (~opt.output_is_dir => outdir0 = NoDir)
    /\ outdir = outdir0
    /\ pc = "args"
    /\ InitLocals
    /\ env = NoEnv
    /\ run = 1
    /\ first = NoDir
    /\ query = NoQuery
    /\ answer = NoAnswer

\* main returns Err(msg).
Fail(msg) == pc' = "failed" /\ err' = msg

\* A panic unwinds out of main.
Abort(msg) == pc' = "panicked" /\ err' = msg

\* The thread waits for a mutex it holds itself: the process hangs.
Hang == pc' = "deadlocked" /\ err' = DEADLOCK

\* What player.lock().unwrap() outside catch_unwind does when it gives no
\* guard.
NoGuard(g) == IF g.msg = DEADLOCK THEN Hang ELSE Abort(g.msg)

(***************************************************************************)
(* main, lines 279-315                                                     *)
(***************************************************************************)
\* Lines 280-291: no adapter or device of the asked kind is to be had.
RequestAdapterFails ==
    /\ pc = "args"
    /\ Fail("adapter")
    /\ UNCHANGED << opt, checks, outdir0, outdir, warnings, decoded, textures >>
    /\ UNCHANGED parseVars
    /\ UNCHANGED playerVars
    /\ UNCHANGED runVars
    /\ UNCHANGED nameVars
    /\ UNCHANGED env

\* The path checks without the test of the swf argument.
CheckArgs_OutputOnly ==
    /\ pc = "args"
    /\ IF ~opt.output_is_dir
       THEN Fail("Output path is not a directory or does not exist!")
       ELSE pc' = "output" /\ err' = err
    /\ UNCHANGED << opt, checks, outdir0, outdir, warnings, decoded, textures >>
    /\ UNCHANGED parseVars
    /\ UNCHANGED playerVars
    /\ UNCHANGED runVars
    /\ UNCHANGED nameVars
    /\ UNCHANGED env

\* The two path checks.
CheckArgs ==
    /\ pc = "args"
    /\ IF ~opt.swf_is_file
       THEN Fail("Swf argument is not a file or does not exist!")
       ELSE IF ~opt.output_is_dir
       THEN Fail("Output path is not a directory or does not exist!")
       ELSE pc' = "output" /\ err' = err
    /\ UNCHANGED << opt, checks, outdir0, outdir, warnings, decoded, textures >>
    /\ UNCHANGED parseVars
    /\ UNCHANGED playerVars
    /\ UNCHANGED runVars
    /\ UNCHANGED nameVars
    /\ UNCHANGED env

\* The output subdirectory: cleared with the flag, then created.
PrepareOutput ==
    /\ pc = "output"
    /\ outdir' = create_dir_all(IF opt.clear_textures
                                THEN remove_dir_all(outdir) ELSE outdir)
    /\ pc' = "read"
    /\ UNCHANGED << opt, checks, outdir0, err, warnings, decoded, textures >>
    /\ UNCHANGED parseVars
    /\ UNCHANGED playerVars
    /\ UNCHANGED runVars
    /\ UNCHANGED nameVars
    /\ UNCHANGED env

(***************************************************************************)
(* parse_swf_for_textures                                                  *)
(***************************************************************************)
\* Lines 107-113: the file is read, decompressed and parsed into tags.
ReadSwf ==
    /\ pc = "read"
    /\ \E doc \in DocsOf(env) : swf' = doc /\ env' = KeepDoc(env, doc)
    /\ t' = 1
    /\ result' = <<>>
    /\ links' = NoLinks
    /\ reads' = {}
    /\ pc' = "tags"
    /\ UNCHANGED << opt, checks, outdir0, outdir, err, warnings, decoded, textures >>
    /\ UNCHANGED playerVars
    /\ UNCHANGED runVars
    /\ UNCHANGED nameVars

\* Lines 107-109: the file cannot be read, decompressed or parsed.
ReadSwfFails ==
    /\ pc = "read"
    /\ \E msg \in { "Could not read swf file!", "Could not decompress swf!",
                    "Could not parse swf!" } : Abort(msg)
    /\ UNCHANGED << opt, checks, outdir0, outdir, warnings, decoded, textures >>
    /\ UNCHANGED parseVars
    /\ UNCHANGED playerVars
    /\ UNCHANGED runVars
    /\ UNCHANGED nameVars
    /\ UNCHANGED env

\* One turn of the loop over swf.tags, lines 115-141.
TagStep ==
    /\ pc = "tags"
    /\ t <= Len(swf)
    /\ LET tag == swf[t]
           parsed == IsParsedTag(tag)
           r == TagResult(tag, result, checks)
       IN  /\ links' = NextLinks(links, tag)
           /\ warnings' = IF IsWarnedTag(tag) THEN warnings + 1 ELSE warnings
           /\ reads' = IF parsed THEN reads \cup {t} ELSE reads
           /\ decoded' = (decoded \/ parsed)
           /\ IF r.ok
              THEN result' = r.val /\ t' = t + 1 /\ pc' = pc /\ err' = err
              ELSE result' = result /\ t' = t /\ Abort(r.msg)
    /\ UNCHANGED << opt, checks, outdir0, outdir, swf, textures >>
    /\ UNCHANGED playerVars
    /\ UNCHANGED runVars
    /\ UNCHANGED nameVars
    /\ UNCHANGED env

\* Lines 143-149, after the loop: the join with the link table.
Join ==
    /\ pc = "tags"
    /\ t > Len(swf)
    /\ IF links.some
       THEN /\ result' = JoinLinks(links.v, 1, result)
            /\ pc' = "parsed"
            /\ err' = err
       ELSE /\ result' = result
            /\ Abort("No class links found in swf!")
    /\ UNCHANGED << opt, checks, outdir0, outdir, swf, t, links, reads,
                    warnings, decoded, textures >>
    /\ UNCHANGED playerVars
    /\ UNCHANGED runVars
    /\ UNCHANGED nameVars
    /\ UNCHANGED env

\* Line 151 and line 317: result is returned to main, the locals are dropped.
ParseReturn ==
    /\ pc = "parsed"
    /\ textures' = result
    /\ swf' = <<>>
    /\ t' = 0
    /\ result' = <<>>
    /\ links' = NoLinks
    /\ reads' = {}
    /\ pc' = "setup"
    /\ UNCHANGED << opt, checks, outdir0, outdir, err, warnings, decoded >>
    /\ UNCHANGED playerVars
    /\ UNCHANGED runVars
    /\ UNCHANGED nameVars
    /\ UNCHANGED env

(***************************************************************************)
(* set_up_player and the texture loop of main                              *)
(***************************************************************************)
mainVars == << opt, checks, outdir0, warnings, decoded, textures >>

\* set_up_player, lines 159-199: the movie is loaded from the file; an
\* ActionScript 3 movie is refused with the skip flag; otherwise the player
\* is built and, each under its own guard, the window mode set, the movie
\* preloaded, one frame run (the main timeline is on the stage) and the
\* stage emptied and its frame constructed.
SetUpPlayer ==
    /\ pc = "setup"
    /\ \E m \in MoviesOf(env) :
          IF m.is_action_script_3 /\ opt.skip_unsupported
          THEN /\ movie' = [m EXCEPT !.loaded = FALSE]
               /\ stage' = stage
               /\ lock' = lock
               /\ Fail("Skipping unsupported movie")
          ELSE LET s3 == LockedStatements(lock, 3)
                   g == IF s3.ok THEN LockUnwrap(s3.val) ELSE s3
               IN  /\ movie' = m
                   /\ IF ~g.ok
                      THEN stage' = stage /\ lock' = lock /\ NoGuard(g)
                      ELSE /\ stage' = construct_frame(
                                          remove_range(<< Obj(ROOT) >>, 0, 1))
                           /\ lock' = DropGuard(g.val)
                           /\ pc' = "dims"
                           /\ err' = err
    /\ UNCHANGED mainVars
    /\ UNCHANGED parseVars
    /\ UNCHANGED runVars
    /\ UNCHANGED nameVars
    /\ UNCHANGED << outdir, m_size, cur, size, offset, image, bounds, steps,
                    written, faults, env >>

\* set_up_player: SwfMovie::from_path, TextureTarget::new or
\* WgpuRenderBackend::new returns an error.
SetUpPlayerFails ==
    /\ pc = "setup"
    /\ \E msg \in { "movie", "target", "backend" } : Fail(msg)
    /\ UNCHANGED mainVars
    /\ UNCHANGED parseVars
    /\ UNCHANGED playerVars
    /\ UNCHANGED runVars
    /\ UNCHANGED nameVars
    /\ UNCHANGED << outdir, env >>

\* Lines 325-328: the stage size of the movie, read once under the guard of
\* the block.
QueryDims ==
    /\ pc = "dims"
    /\ LET g == LockUnwrap(lock)
       IN  IF ~g.ok
           THEN UNCHANGED << m_size, cur, lock >> /\ NoGuard(g)
           ELSE /\ m_size' \in DimsOf(env)
                /\ cur' = 1
                /\ lock' = DropGuard(g.val)
                /\ pc' = "prepare"
                /\ err' = err
    /\ UNCHANGED mainVars
    /\ UNCHANGED parseVars
    /\ UNCHANGED runVars
    /\ UNCHANGED nameVars
    /\ UNCHANGED << outdir, movie, stage, size, offset, image, bounds, steps,
                    written, faults, env >>

\* The id prepare_stage instantiates: texture.id.expect("ID is none!").
IdExpect(texture) ==
    IF texture.id.some THEN Ok(texture.id.v) ELSE Panic("ID is none!")

\* What a step of prepare_stage or take_screenshot leaves alone besides the
\* variables its own line names.
StepFrame ==
    /\ UNCHANGED mainVars
    /\ UNCHANGED parseVars
    /\ UNCHANGED runVars
    /\ UNCHANGED nameVars
    /\ UNCHANGED << outdir, movie, m_size, cur, offset, written >>

\* prepare_stage, lines 207-213, for the texture of this turn of the loop:
\* the player is locked and, in update's closure, the background set and
\* every child removed from the stage.
ResetStage ==
    /\ pc = "prepare"
    /\ cur <= Len(textures)
    /\ LET g == LockUnwrap(lock)
       IN  IF ~g.ok
           THEN UNCHANGED << stage, lock, steps >> /\ NoGuard(g)
           ELSE /\ lock' = g.val
                /\ stage' = remove_range(stage, 0, Len(stage))
                /\ steps' = << "reset" >>
                /\ pc' = "instantiate"
                /\ err' = err
    /\ StepFrame
    /\ UNCHANGED << size, image, bounds, faults, env >>

\* Lines 215-224: the symbol of the texture is instantiated from the
\* library of the movie, put on the stage at index 0 and enters its frame.
\* A panic of an expect unwinds through the guard.
Instantiate ==
    /\ pc = "instantiate"
    /\ LET id == IdExpect(textures[cur])
       IN  IF ~id.ok
           THEN /\ UNCHANGED << stage, steps >>
                /\ lock' = DropGuardPanicking(lock)
                /\ Abort(id.msg)
           ELSE IF id.val \notin movie.library
           THEN /\ UNCHANGED << stage, steps >>
                /\ lock' = DropGuardPanicking(lock)
                /\ Abort("Could not get symbol!")
           ELSE /\ stage' = insert_at_index(stage, Obj(id.val), 0)
                /\ steps' = Append(steps, "instantiate")
                /\ lock' = lock
                /\ pc' = "settle1"
                /\ err' = err
    /\ StepFrame
    /\ UNCHANGED << size, image, bounds, faults, env >>

\* Lines 226-227: the frame of the stage is constructed.
FirstSettle ==
    /\ pc = "settle1"
    /\ stage' = construct_frame(stage)
    /\ steps' = Append(steps, "settle")
    /\ pc' = "measure"
    /\ UNCHANGED << err, lock, size, image, bounds, faults, env >>
    /\ StepFrame

\* Lines 229-233: the bounds of the object are read, and its width and
\* height.
Measure ==
    /\ pc = "measure"
    /\ \E b \in BoundsOf(env, cur) :
          /\ bounds' = b
          /\ size' = BoxOf(b)
          /\ env' = KeepBox(env, b)
    /\ steps' = Append(steps, "measure")
    /\ pc' = "reanchor"
    /\ UNCHANGED << err, lock, stage, image, faults >>
    /\ StepFrame

\* The move of the object with the second construction of the frame left
\* out: the closure ends after set_y.
Reanchor_ThenRender ==
    /\ pc = "reanchor"
    /\ stage' = set_xy(stage, 0, bounds.x_min * (-1), bounds.y_min * (-1))
    /\ steps' = Append(steps, "reanchor")
    /\ lock' = DropGuard(lock)
    /\ pc' = "render"
    /\ UNCHANGED << err, size, image, bounds, faults, env >>
    /\ StepFrame

\* Lines 235-236: the object is moved by (-x_min, -y_min).
Reanchor ==
    /\ pc = "reanchor"
    /\ stage' = set_xy(stage, 0, bounds.x_min * (-1), bounds.y_min * (-1))
    /\ steps' = Append(steps, "reanchor")
    /\ pc' = "settle2"
    /\ UNCHANGED << err, lock, size, image, bounds, faults, env >>
    /\ StepFrame

\* Lines 238-248: the frame is constructed again and the stage invalidated;
\* the closure ends, the guard is dropped and (width, height) returned.
SecondSettle ==
    /\ pc = "settle2"
    /\ stage' = construct_frame(stage)
    /\ steps' = Append(steps, "settle")
    /\ lock' = DropGuard(lock)
    /\ pc' = "render"
    /\ UNCHANGED << err, size, image, bounds, faults, env >>
    /\ StepFrame

PrepareStage ==
    \/ ResetStage
    \/ Instantiate
    \/ FirstSettle
    \/ Measure
    \/ Reanchor
    \/ SecondSettle

\* The error of take_screenshot dropped: the loop goes on with the image
\* it has.
ScreenshotFails_Continue(r) ==
    /\ faults' = faults \cup { cur }
    /\ pc' = "offset"
    /\ err' = err

\* The error take_screenshot returns is returned by main, line 332.
ScreenshotFails(r) ==
    /\ faults' = faults \cup { cur }
    /\ IF r.val = "err" THEN Fail(r.msg) ELSE Abort(r.msg)

\* take_screenshot, line 257, inside catch_unwind: the player is locked for
\* the statement and the stage rendered.
Render ==
    /\ pc = "render"
    /\ LET g == LockUnwrap(lock)
       IN  IF ~g.ok /\ g.msg = DEADLOCK
           THEN UNCHANGED << lock, steps, faults >> /\ Hang
           ELSE \E o \in (IF g.ok THEN RendersOf(env) ELSE { "panic" }) :
                  LET r == ScreenshotResult(o, textures[cur].classname.name)
                  IN  /\ steps' = Append(steps, "render")
                      /\ IF r.ok
                         THEN /\ lock' = DropGuard(g.val)
                              /\ faults' = faults
                              /\ pc' = "capture"
                              /\ err' = err
                         ELSE /\ lock' = DropGuardPanicking(lock)
                              /\ ScreenshotFails(r)
    /\ StepFrame
    /\ UNCHANGED << stage, size, image, bounds, env >>

\* take_screenshot, lines 258-275: the player is locked again, the renderer
\* downcast and the frame captured; the match on what catch_unwind returns.
Capture ==
    /\ pc = "capture"
    /\ LET g == LockUnwrap(lock)
       IN  IF ~g.ok /\ g.msg = DEADLOCK
           THEN UNCHANGED << lock, steps, faults, image >> /\ Hang
           ELSE \E o \in (IF g.ok THEN CapturesOf(env) ELSE { "panic" }) :
                  LET r == ScreenshotResult(o, textures[cur].classname.name)
                  IN  /\ steps' = Append(steps, "capture")
                      /\ IF r.ok
                         THEN /\ image' = [sym |-> stage[1].sym,
                                           x |-> 0, y |-> 0,
                                           w |-> RENDER_WIDTH,
                                           h |-> RENDER_HEIGHT]
                              /\ lock' = DropGuard(g.val)
                              /\ faults' = faults
                              /\ pc' = "offset"
                              /\ err' = err
                         ELSE /\ image' = image
                              /\ lock' = IF o = "panic"
                                         THEN DropGuardPanicking(lock)
                                         ELSE DropGuard(lock)
                              /\ ScreenshotFails(r)
    /\ StepFrame
    /\ UNCHANGED << stage, size, bounds, env >>

take_screenshot ==
    \/ Render
    \/ Capture

\* Lines 334-336: (half_width, half_height).
ComputeOffset ==
    /\ pc = "offset"
    /\ LET hw == HalfOffset(RENDER_WIDTH, m_size[1], checks)
           hh == HalfOffset(RENDER_HEIGHT, m_size[2], checks)
       IN  IF ~hw.ok THEN offset' = offset /\ Abort(hw.msg)
           ELSE IF ~hh.ok THEN offset' = offset /\ Abort(hh.msg)
           ELSE offset' = << hw.val, hh.val >> /\ pc' = "view" /\ err' = err
    /\ UNCHANGED mainVars
    /\ UNCHANGED parseVars
    /\ UNCHANGED runVars
    /\ UNCHANGED nameVars
    /\ UNCHANGED << outdir, movie, stage, m_size, cur, size, image, bounds,
                    lock, steps, written, faults, env >>

\* Line 338: the rectangle (half_width, half_height, width, height) of the
\* capture becomes the image.
View ==
    /\ pc = "view"
    /\ IF ViewInBounds(offset[1], offset[2], size[1], size[2])
       THEN /\ image' = [image EXCEPT !.x = offset[1], !.y = offset[2],
                                      !.w = size[1], !.h = size[2]]
            /\ steps' = Append(steps, "crop")
            /\ pc' = "persist"
            /\ err' = err
       ELSE /\ image' = image
            /\ steps' = steps
            /\ Abort("view out of bounds")
    /\ UNCHANGED mainVars
    /\ UNCHANGED parseVars
    /\ UNCHANGED runVars
    /\ UNCHANGED nameVars
    /\ UNCHANGED << outdir, movie, stage, m_size, cur, size, offset, bounds,
                    lock, written, faults, env >>

\* Lines 340-353: the image is encoded and written to <name>.png; the loop
\* goes on to the next texture.
Persist ==
    /\ pc = "persist"
    /\ outdir' = WriteFile(outdir, ImgFile(textures[cur]), image)
    /\ written' = Append(written, cur)
    /\ steps' = <<>>
    /\ cur' = cur + 1
    /\ pc' = "prepare"
    /\ UNCHANGED mainVars
    /\ UNCHANGED parseVars
    /\ UNCHANGED runVars
    /\ UNCHANGED nameVars
    /\ UNCHANGED << err, movie, stage, m_size, size, offset, image, bounds,
                    lock, faults, env >>

\* Line 353: std::fs::write returns an error.
PersistFails ==
    /\ pc = "persist"
    /\ Fail("write")
    /\ UNCHANGED mainVars
    /\ UNCHANGED parseVars
    /\ UNCHANGED playerVars
    /\ UNCHANGED runVars
    /\ UNCHANGED nameVars
    /\ UNCHANGED << outdir, env >>

\* The loop left before its last texture.
Finish_Early ==
    /\ pc = "prepare"
    /\ cur > 1
    /\ pc' = "done"
    /\ UNCHANGED mainVars
    /\ UNCHANGED parseVars
    /\ UNCHANGED playerVars
    /\ UNCHANGED runVars
    /\ UNCHANGED nameVars
    /\ UNCHANGED << outdir, err, env >>

\* Line 356: the loop is over, main returns Ok(()).
Finish ==
    /\ pc = "prepare"
    /\ cur > Len(textures)
    /\ pc' = "done"
    /\ UNCHANGED mainVars
    /\ UNCHANGED parseVars
    /\ UNCHANGED playerVars
    /\ UNCHANGED runVars
    /\ UNCHANGED nameVars
    /\ UNCHANGED << outdir, err, env >>

Next ==
    \/ RequestAdapterFails
    \/ CheckArgs
    \/ PrepareOutput
    \/ ReadSwf
    \/ ReadSwfFails
    \/ TagStep
    \/ Join
    \/ ParseReturn
    \/ SetUpPlayer
    \/ SetUpPlayerFails
    \/ QueryDims
    \/ PrepareStage
    \/ take_screenshot
    \/ ComputeOffset
    \/ View
    \/ Persist
    \/ PersistFails
    \/ Finish

Spec == Init /\ [][Next]_vars

(***************************************************************************)
(* The two resolvers on their own: a namespace of any kind and any string  *)
(* index, or a multiname of the pool, is handed to its resolver.           *)
(***************************************************************************)
NamespaceQueries ==
    [of : {"namespace"}, kind : NamespaceKinds, index : 0..(Len(PoolStrings) + 1)]
MultinameQueries ==
    [of : {"multiname"}, kind : {""}, index : 1..Len(PoolMultinames)]

InitNames ==
    /\ opt = [swf_is_file |-> TRUE, output_is_dir |-> TRUE,
              skip_unsupported |-> FALSE, clear_textures |-> FALSE]
    /\ checks \in BOOLEAN
    /\ outdir0 = NoDir
    /\ outdir = NoDir
    /\ pc = "resolve"
    /\ InitLocals
    /\ env = NoEnv
    /\ run = 1
    /\ first = NoDir
    /\ query \in NamespaceQueries \cup MultinameQueries
    /\ answer = NoAnswer

\* get_namespace_name(namespace, abc), lines 60-70.
ResolveNamespace ==
    /\ pc = "resolve"
    /\ query.of = "namespace"
    /\ answer' = get_namespace_name(Ns(query.kind, query.index), Pool, checks)
    /\ pc' = "resolved"
    /\ UNCHANGED << opt, checks, outdir0, outdir, err, warnings, decoded,
                    textures, env, query >>
    /\ UNCHANGED parseVars
    /\ UNCHANGED playerVars
    /\ UNCHANGED runVars

\* get_name(name, abc), lines 72-91.
ResolveName ==
    /\ pc = "resolve"
    /\ query.of = "multiname"
    /\ answer' = get_name(PoolMultinames[query.index], Pool, checks)
    /\ pc' = "resolved"
    /\ UNCHANGED << opt, checks, outdir0, outdir, err, warnings, decoded,
                    textures, env, query >>
    /\ UNCHANGED parseVars
    /\ UNCHANGED playerVars
    /\ UNCHANGED runVars

NextNames ==
    \/ ResolveNamespace
    \/ ResolveName

SpecNames == InitNames /\ [][NextNames]_vars

(***************************************************************************)
(* The program run twice with the clear flag on the same document, by a    *)
(* render capability that gives the second run what it gave the first.     *)
(***************************************************************************)
InitTwice ==
    /\ opt \in { o \in OptChoices : o.clear_textures }
    /\ checks \in BOOLEAN
    /\ outdir0 \in DirChoices
    /\ (~opt.output_is_dir => outdir0 = NoDir)
    /\ outdir = outdir0
    /\ pc = "args"
    /\ InitLocals
    /\ env = [NoEnv EXCEPT !.again = TRUE]
    /\ run = 1
    /\ first = NoDir
    /\ query = NoQuery
    /\ answer = NoAnswer

\* The first run has returned Ok(()): the program is started again, and finds
\* the output subdirectory as the first run left it.
Rerun ==
    /\ pc = "done"
    /\ run = 1
    /\ env.again
    /\ run' = 2
    /\ first' = outdir
    /\ outdir0' = outdir
    /\ env' = [env EXCEPT !.replay = TRUE, !.movie = movie, !.dims = m_size]
    /\ pc' = "args"
    /\ err' = ""
    /\ swf' = <<>>
    /\ t' = 0
    /\ result' = <<>>
    /\ links' = NoLinks
    /\ reads' = {}
    /\ warnings' = 0
    /\ decoded' = FALSE
    /\ textures' = <<>>
    /\ movie' = NoMovie
    /\ stage' = <<>>
    /\ m_size' = <<0, 0>>
    /\ cur' = 0
    /\ size' = <<0, 0>>
    /\ offset' = <<0, 0>>
    /\ image' = NoImage
    /\ bounds' = NoBounds
    /\ lock' = "free"
    /\ steps' = <<>>
    /\ written' = <<>>
    /\ faults' = {}
    /\ UNCHANGED << opt, checks, outdir >>
    /\ UNCHANGED nameVars

NextTwice ==
    \/ Next
    \/ Rerun

SpecTwice == InitTwice /\ [][NextTwice]_vars

(***************************************************************************)
(* Properties                                                              *)
(***************************************************************************)
\* The positions of the tags of a kind.
TagsOfKind(tags, kind) == { k \in 1..Len(tags) : tags[k].kind = kind }

\* Whether a link names the class of a texture.
LinkMatches(link, texture) ==
    link.valid_utf8
    /\ link.class_name = texture.classname.namespace \o "." \o texture.classname.name

\* prepare_stage has been called for a texture that has no symbol id.
UnresolvedTurn ==
    /\ pc \notin { "prepare", "instantiate" }
    /\ cur \in 1..Len(textures)
    /\ ~textures[cur].id.some

\* C1: a texture candidate that no link of the used table names ends the run
\* in a reported error for that candidate: it is not instantiated, and the
\* process does not crash.
C1_UnresolvedIsReported ==
    UnresolvedTurn => (pc = "failed" /\ stage = <<>>)

\* C2: with more than one SymbolClass tag, the join uses the link table of
\* the last one only: a texture has an id exactly when the last table names
\* its class, the id is one that table gives the class, and a class named
\* only by an earlier table stays without id.
C2_LastSymbolClassOnly ==
    (pc = "parsed" /\ Cardinality(TagsOfKind(swf, "SymbolClass")) > 1) =>
        LET sc == TagsOfKind(swf, "SymbolClass")
            last == CHOOSE k \in sc : \A j \in sc : j <= k
            table == swf[last].links
        IN  \A j \in 1..Len(result) :
               /\ result[j].id.some <=>
                     \E l \in 1..Len(table) : LinkMatches(table[l], result[j])
               /\ result[j].id.some =>
                     \E l \in 1..Len(table) :
                        /\ LinkMatches(table[l], result[j])
                        /\ table[l].id = result[j].id.v

\* C2 happens: two SymbolClass tags, and a texture without id whose class
\* an earlier table names.
C2_Witness ==
    /\ pc = "parsed"
    /\ Cardinality(TagsOfKind(swf, "SymbolClass")) > 1
    /\ \E j \in 1..Len(result) :
          /\ ~result[j].id.some
          /\ \E k \in TagsOfKind(swf, "SymbolClass") :
                \E l \in 1..Len(swf[k].links) :
                   LinkMatches(swf[k].links[l], result[j])

\* C3: resolving a multiname that is not a QName gives an error value and
\* never crashes the process.
C3_UnsupportedNameIsNoCrash ==
    pc = "panicked" => err # UNSUPPORTED_NAME

\* The instances of the DoAbc2 tags, in tag order and then instance order.
RECURSIVE ModernInstances(_, _)
ModernInstances(tags, k) ==
    IF k > Len(tags) THEN <<>>
    ELSE (IF tags[k].kind = "DoAbc2" THEN tags[k].instances ELSE <<>>)
         \o ModernInstances(tags, k + 1)

\* The (namespace, name) a multiname reference of the pool stands for.
NameOf(ref) ==
    LET mn == PoolMultinames[ref]
    IN  [namespace |-> PoolStrings[PoolNamespaces[mn.namespace].index],
         name |-> PoolStrings[mn.name]]

PassesCheck(i) ==
    /\ NameOf(i.name).namespace = "com.exported.textures"
    /\ NameOf(i.super_name) =
          [namespace |-> "com.lachhh.flash", name |-> "FlashAnimationTexture"]

\* C4: the textures are, in tag order and then instance order, exactly the
\* class instances whose name is in com.exported.textures and whose direct
\* superclass is com.lachhh.flash.FlashAnimationTexture.
C4_ExactlyTheMatchingInstances ==
    pc = "parsed" =>
        LET selected == SelectSeq(ModernInstances(swf, 1), PassesCheck)
        IN  /\ Len(result) = Len(selected)
            /\ \A j \in 1..Len(result) :
                  /\ result[j].classname = NameOf(selected[j].name)
                  /\ result[j].supername = NameOf(selected[j].super_name)

\* C4 happens: a document with a selected class and with classes that fail
\* one half of the check each, one of them extending a texture class.
C4_Witness ==
    /\ pc = "parsed"
    /\ Len(result) >= 2
    /\ LET all == ModernInstances(swf, 1)
       IN  /\ \E j \in 1..Len(all) :
                 /\ NameOf(all[j].name).namespace = "com.exported.textures"
                 /\ NameOf(all[j].super_name).namespace = "com.exported.textures"
           /\ \E j \in 1..Len(all) :
                 /\ NameOf(all[j].name).namespace # "com.exported.textures"
                 /\ NameOf(all[j].super_name).name = "FlashAnimationTexture"

\* The document of the example: one class, com.exported.textures.Foo
\* extending the base type, and one link, of id 5, to it.
ExampleDocument ==
    /\ ModernInstances(swf, 1) = << Inst(1, 2) >>
    /\ links.some
    /\ links.v = << Link(5, "com.exported.textures.Foo", TRUE) >>

\* C5: after the join a texture has the id k exactly when the used link
\* table has a link to its class, and k is the id of such a link; the
\* example document gives one texture, of id 5.
C5_IdIffLinked ==
    pc = "parsed" =>
        /\ \A j \in 1..Len(result) :
              /\ result[j].id.some <=>
                    \E l \in 1..Len(links.v) : LinkMatches(links.v[l], result[j])
              /\ result[j].id.some =>
                    \E l \in 1..Len(links.v) :
                       /\ LinkMatches(links.v[l], result[j])
                       /\ links.v[l].id = result[j].id.v
        /\ ExampleDocument =>
              /\ Len(result) = 1
              /\ result[1].classname =
                    [namespace |-> "com.exported.textures", name |-> "Foo"]
              /\ result[1].id = [some |-> TRUE, v |-> 5]

\* C5 happens: the example document has been joined, and so has a document
\* with a texture that several links name.
C5_Witness ==
    /\ pc = "parsed"
    /\ ExampleDocument
    /\ Len(result) = 1

\* round(d / 2) of the integers, halves away from zero.
RoundHalf(d) == IF d >= 0 THEN (d + 1) \div 2 ELSE -((1 - d) \div 2)

\* C6: the offset of the crop is a function of the stage size of the
\* document alone: (round((RENDER_WIDTH - movieWidth) / 2),
\* round((RENDER_HEIGHT - movieHeight) / 2)); 400 x 300 gives (824, 874).
C6_OffsetIsCentering ==
    pc \in { "view", "persist" } =>
        /\ offset = << RoundHalf(2048 - m_size[1]), RoundHalf(2048 - m_size[2]) >>
        /\ m_size = <<400, 300>> => offset = <<824, 874>>

\* The subscripts of the textures whose image file is the given one.
TexturesOfFile(n) == { j \in 1..Len(textures) : ImgFile(textures[j]) = n }

\* C7: a constant-pool reference that is 0 or past its table gives a
\* failure value: no lookup made during resolution crashes the process.
C7_BadIndexIsNoCrash ==
    (pc = "panicked" /\ t > 0) =>
        err \notin { "No index at thingy!", "Could not get namespace!",
                     "Could not get string!", OVERFLOW }

\* C8: after a batch over N textures has completed, the output
\* subdirectory holds N image files of the batch, <className>.png for each
\* texture, none of them written over by another texture of the batch.
C8_OneFilePerTexture ==
    pc = "done" =>
        /\ \A j \in 1..Len(textures) : ImgFile(textures[j]) \in DOMAIN outdir.files
        /\ Cardinality({ n \in DOMAIN outdir.files : TexturesOfFile(n) # {} })
              = Len(textures)
        /\ \A n \in DOMAIN outdir.files : Cardinality(TexturesOfFile(n)) <= 1

\* The tag sequence without its legacy blobs.
IsModern(tag) == tag.kind # "DoAbc"
WithoutLegacy(tags) == SelectSeq(tags, IsModern)

\* C9: a DoAbc tag is never handed to the reader and never makes the run
\* fail: it adds a warning, and the parse ends as the parse of the same
\* tag sequence without the legacy tags ends, with the same texture list.
C9_LegacyOnlyWarns ==
    /\ (pc \in { "tags", "parsed" } \/ (pc = "panicked" /\ t > 0)) =>
          /\ reads \cap TagsOfKind(swf, "DoAbc") = {}
          /\ warnings = Cardinality({ k \in TagsOfKind(swf, "DoAbc") : k < t })
    /\ pc = "parsed" =>
          LET modern == ParseTags(WithoutLegacy(swf), 1, <<>>, NoLinks, checks)
          IN  modern.ok /\ modern.val = result
    /\ (pc = "panicked" /\ t > 0) =>
          LET modern == ParseTags(WithoutLegacy(swf), 1, <<>>, NoLinks, checks)
          IN  ~modern.ok /\ modern.msg = err

\* C9 happens: a document with a legacy blob has been parsed to a list of
\* textures.
C9_Witness ==
    /\ pc = "parsed"
    /\ TagsOfKind(swf, "DoAbc") # {}
    /\ TagsOfKind(swf, "DoAbc2") # {}
    /\ Len(result) > 0
    /\ warnings > 0

\* C10: with the skip flag, an unsupported document is refused up front:
\* the run ends in the error with no texture on the stage and none written,
\* no bytecode decoded and the output subdirectory as it was.
C10_RefusedUpFront ==
    (pc = "failed" /\ err = "Skipping unsupported movie") =>
        /\ opt.skip_unsupported /\ movie.is_action_script_3
        /\ stage = <<>>
        /\ cur = 0
        /\ ~decoded
        /\ outdir0.exists => outdir = outdir0

C12_KindIndependent ==
    (pc = "resolved" /\ query.of = "namespace") =>
        \A kind \in NamespaceKinds :
            get_namespace_name(Ns(kind, query.index), Pool, checks) = answer

\* C12 happens: a private namespace has been resolved to the string of its
\* index.
C12_Witness ==
    /\ pc = "resolved"
    /\ query.of = "namespace"
    /\ query.kind = "Private"
    /\ answer = Ok("com.exported.textures")

\* The image files of the textures of the batch.
BatchFiles == { ImgFile(textures[j]) : j \in 1..Len(textures) }

\* C13: with the clear flag and a render capability that repeats itself, a
\* second run on the same document leaves the output subdirectory as the
\* first run left it: the same files with the same content, which are the
\* files of the batch and no other.
C13_SecondRunSameOutput ==
    (run = 2 /\ pc = "done" /\ opt.clear_textures) =>
        /\ outdir = first
        /\ DOMAIN outdir.files = BatchFiles

\* C13 happens: the second run with the clear flag has written its textures
\* into a subdirectory that held the files of the first run.
C13_Witness ==
    /\ run = 2
    /\ pc = "done"
    /\ opt.clear_textures
    /\ Len(written) >= 2
    /\ outdir0.files # NoFiles

\* The steps of one texture, in the order of section 4.5; the write of the
\* file ends the turn.
StepOrder ==
    << "reset", "instantiate", "settle", "measure", "reanchor", "settle",
       "render", "capture", "crop" >>

\* C14: the steps taken for a texture are, in this order, reset,
\* instantiate, first settle, measure, re-anchor by (-x_min, -y_min), second
\* settle, render, capture, crop, and then the write: the box is read
\* while the object is where it was instantiated, the render is asked for
\* only after the second settle, and a texture begins only when every
\* texture before it has been written.
C14_StepsInOrder ==
    /\ Len(steps) <= Len(StepOrder)
    /\ steps = SubSeq(StepOrder, 1, Len(steps))
    /\ pc = "reanchor" =>
          /\ size = BoxOf(bounds)
          /\ stage[1].x = 0 /\ stage[1].y = 0
    /\ pc \in { "settle2", "render", "capture", "offset", "view", "persist" } =>
          /\ stage[1].x = -bounds.x_min
          /\ stage[1].y = -bounds.y_min
    /\ pc \in { "render", "capture", "offset", "view", "persist" } =>
          stage[1].frames = 2
    /\ cur >= 1 => written = [j \in 1..(cur - 1) |-> j]
    /\ pc = "persist" => steps = StepOrder

\* C14 happens: the second texture of a batch has gone through every step
\* up to the crop, moved off its box's corner, after the first was written.
C14_Witness ==
    /\ pc = "persist"
    /\ cur = 2
    /\ steps = StepOrder
    /\ written = << 1 >>
    /\ bounds.x_min = -10
    /\ stage[1].x = 10

\* The errors take_screenshot makes for the texture at index j.
CaptureErrors(j) ==
    LET name == "\"" \o textures[j].classname.name \o "\""
    IN  { "Unable to capture frame of " \o name,
          "Unable to capture frame of " \o name \o ": panic" }

C16_FailureHaltsBatch ==
    \A i \in faults :
        /\ pc = "failed"
        /\ cur = i
        /\ written = [j \in 1..(i - 1) |-> j]
        /\ stage = << [Obj(textures[i].id.v) EXCEPT !.x = -bounds.x_min,
                                                    !.y = -bounds.y_min,
                                                    !.frames = 2] >>
        /\ \A j \in 1..(i - 1) : ImgFile(textures[j]) \in DOMAIN outdir.files
        /\ \A n \in DOMAIN outdir.files :
              \/ \E j \in 1..(i - 1) :
                    /\ n = ImgFile(textures[j])
                    /\ outdir.files[n].sym \in
                          { textures[k].id.v : k \in 1..(i - 1) }
              \/ /\ n \in DOMAIN outdir0.files
                 /\ outdir.files[n] = outdir0.files[n]

\* C16 happens: the capture of the second texture returned no frame, after
\* the first was written.
C16_Witness ==
    /\ faults = { 2 }
    /\ pc = "failed"
    /\ err = "Unable to capture frame of \"" \o textures[2].classname.name \o "\""
    /\ written = << 1 >>
    /\ ImgFile(textures[1]) # ImgFile(textures[2])

\* Where main is inside the closure of prepare_stage's update.
InUpdate == pc \in { "instantiate", "settle1", "measure", "reanchor", "settle2" }

\* C17: the stage is changed and measured only under the player's lock; the
\* lock is let go at the end of every operation, is free between two
\* operations, and is never asked for by the thread that holds it: the run
\* never waits for itself.
C17_LockDiscipline ==
    /\ lock \in { "free", "held", "poisoned" }
    /\ pc # "deadlocked"
    /\ InUpdate => lock = "held"
    /\ lock = "held" => InUpdate
    /\ lock = "poisoned" => pc \in { "failed", "panicked" }
    /\ pc \in { "dims", "prepare", "render", "capture", "offset", "view",
                 "persist", "done" } => lock = "free"

\* C17 happens: the lock is free after the stage of the second texture was
\* prepared under it.
C17_Witness ==
    /\ pc = "render"
    /\ cur = 2
    /\ steps = SubSeq(StepOrder, 1, 6)
    /\ lock = "free"

\* main has returned or has been unwound.
Terminated == pc \in { "done", "failed", "panicked" }

\* How far main is: the place of pc in the text of main, the turn of the
\* texture loop and the turn of the tag loop.
Position ==
    CASE pc = "args" -> 0
      [] pc = "output" -> 1
      [] pc = "read" -> 2
      [] pc = "tags" -> 3
      [] pc = "parsed" -> 4
      [] pc = "setup" -> 5
      [] pc = "dims" -> 6
      [] pc = "prepare" -> 7
      [] pc = "instantiate" -> 8
      [] pc = "settle1" -> 9
      [] pc = "measure" -> 10
      [] pc = "reanchor" -> 11
      [] pc = "settle2" -> 12
      [] pc = "render" -> 13
      [] pc = "capture" -> 14
      [] pc = "offset" -> 15
      [] pc = "view" -> 16
      [] pc = "persist" -> 17
      [] OTHER -> 18
Progress == (cur * 19 + Position) * (MaxTags + 2) + t

\* The statement main is at can be executed.  A turn of the tag loop has no
\* condition but that a tag is left.
HasStep ==
    CASE pc = "args" -> ENABLED CheckArgs
      [] pc = "output" -> ENABLED PrepareOutput
      [] pc = "read" -> ENABLED ReadSwf
      [] pc = "tags" -> t <= Len(swf) \/ ENABLED Join
      [] pc = "parsed" -> ENABLED ParseReturn
      [] pc = "setup" -> ENABLED SetUpPlayer
      [] pc = "dims" -> ENABLED QueryDims
      [] pc = "prepare" -> ENABLED (ResetStage \/ Finish)
      [] pc = "instantiate" -> ENABLED Instantiate
      [] pc = "settle1" -> ENABLED FirstSettle
      [] pc = "measure" -> ENABLED Measure
      [] pc = "reanchor" -> ENABLED Reanchor
      [] pc = "settle2" -> ENABLED SecondSettle
      [] pc = "render" -> ENABLED Render
      [] pc = "capture" -> ENABLED Capture
      [] pc = "offset" -> ENABLED ComputeOffset
      [] pc = "view" -> ENABLED View
      [] pc = "persist" -> ENABLED Persist
      [] OTHER -> FALSE

\* C18: every call taken to return, the run comes to an end: a state that
\* is not the end of the run has a next step, and every step brings main
\* further, in a measure that has a largest value.  When the run ends in Ok
\* every texture of the list has been written, in the order of the list and
\* once each; when it ends otherwise it ends with an error at the first
\* texture a step of which failed, the textures before it written.  The
\* loop never goes back to a texture.
C18_BatchTerminates ==
    /\ [](Terminated \/ HasStep)
    /\ [][Progress' > Progress]_vars
    /\ [](cur <= Len(textures) + 1 /\ t <= MaxTags + 1)
    /\ [](pc = "done" =>
            /\ written = [j \in 1..Len(textures) |-> j]
            /\ cur = Len(textures) + 1
            /\ err = "")
    /\ []((Terminated /\ pc # "done" /\ cur >= 1) =>
            /\ err # ""
            /\ cur \in 1..Len(textures)
            /\ written = [j \in 1..(cur - 1) |-> j])
    /\ [][cur' >= cur /\ Len(written') >= Len(written)]_vars

\* C18 happens: a batch of two textures has been written to its end.
C18_Witness ==
    /\ pc = "done"
    /\ Len(textures) = 2
    /\ written = << 1, 2 >>

\* C19: when the render is asked for, and until the capture is taken, the
\* stage has one child, at index 0: the object instantiated for the symbol
\* id of the texture of this turn.  The main timeline of the document and
\* the objects of the textures before are off the stage.
C19_OneChildAtRender ==
    pc \in { "render", "capture", "offset" } =>
        /\ Len(stage) = 1
        /\ stage[1].sym = textures[cur].id.v
        /\ stage[1].sym # ROOT

\* C19 happens: the render of the second texture is about to be asked for,
\* its symbol another one than that of the first.
C19_Witness ==
    /\ pc = "render"
    /\ cur = 2
    /\ textures[1].id.v # textures[2].id.v
    /\ stage = << [Obj(textures[2].id.v) EXCEPT !.x = -bounds.x_min,
                                                !.y = -bounds.y_min,
                                                !.frames = 2] >>

\* C20: for every texture that comes to the crop, whatever the stage size
\* of the document and the box of the symbol, the subtractions of the offset
\* do not underflow and the rectangle (half_width, half_height, width,
\* height) lies inside the RENDER_WIDTH x RENDER_HEIGHT capture.
C20_CropInsideAtlas ==
    /\ pc = "view" =>
          /\ m_size[1] <= RENDER_WIDTH /\ m_size[2] <= RENDER_HEIGHT
          /\ ViewInBounds(offset[1], offset[2], size[1], size[2])
    /\ (pc = "panicked" /\ cur >= 1 /\ Len(steps) >= Len(StepOrder) - 1) =>
          err \notin { OVERFLOW, "view out of bounds" }
=============================================================================
